---- MODULE Spec2Model ----
(***************************************************************************)
(* URL shortener of Projects/2.URLShortener/main.go: the in-memory map     *)
(* urlStore guarded by the mutex mu, the code generator generateShortCode  *)
(* and the two HTTP handlers shortenURLHandler and redirectHandler, each   *)
(* run by a pool of goroutines that serve requests concurrently.           *)
(***************************************************************************)
EXTENDS Integers, Sequences, FiniteSets, TLC

\* ------------------------------------------------------------------ bounds
NumProcs == 2      \* goroutines serving requests at the same time
MaxReqs == 2       \* requests received in one run
TapeLen == 2       \* period of the modelled randomness source

\* --------------------------------------------------------------- constants
shortCodeLength == 8
RetryLimit == 5    \* K of the design's collision retry (spec 4.3 step 3)

Procs == 1 .. NumProcs
Unlocked == 0

\* ------------------------------------------------------- strings and bytes
\* A string is a sequence of one-character strings; a byte is 0..255.
Base64URLAlphabet ==
  << "A","B","C","D","E","F","G","H","I","J","K","L","M","N","O","P",
     "Q","R","S","T","U","V","W","X","Y","Z","a","b","c","d","e","f",
     "g","h","i","j","k","l","m","n","o","p","q","r","s","t","u","v",
     "w","x","y","z","0","1","2","3","4","5","6","7","8","9","-","_" >>

HexDigits ==
  << "0","1","2","3","4","5","6","7","8","9","a","b","c","d","e","f" >>

B64(i) == Base64URLAlphabet[i + 1]

\* base64.URLEncoding.EncodeToString: 3 bytes to 4 characters, '=' padding.
RECURSIVE Base64URLEncode(_)
Base64URLEncode(b) ==
  IF Len(b) = 0 THEN << >>
  ELSE IF Len(b) = 1 THEN
    << B64(b[1] \div 4), B64((b[1] % 4) * 16), "=", "=" >>
  ELSE IF Len(b) = 2 THEN
    << B64(b[1] \div 4), B64((b[1] % 4) * 16 + (b[2] \div 16)),
       B64((b[2] % 16) * 4), "=" >>
  ELSE
    << B64(b[1] \div 4), B64((b[1] % 4) * 16 + (b[2] \div 16)),
       B64((b[2] % 16) * 4 + (b[3] \div 64)), B64(b[3] % 64) >>
    \o Base64URLEncode(SubSeq(b, 4, Len(b)))

\* fmt.Sprintf("%x", b) of a byte slice: two lowercase hex digits per byte.
RECURSIVE HexEncode(_)
HexEncode(b) ==
  IF Len(b) = 0 THEN << >>
  ELSE << HexDigits[(b[1] \div 16) + 1], HexDigits[(b[1] % 16) + 1] >>
       \o HexEncode(Tail(b))

\* One call of rand.Read(b) on b = make([]byte, shortCodeLength): the bytes
\* left in b and whether an error was returned.
ZeroBlock == [i \in 1 .. shortCodeLength |-> 0]
MaxBlock == [i \in 1 .. shortCodeLength |-> 255]

RandReads ==
  { [b |-> ZeroBlock, err |-> FALSE],
    [b |-> MaxBlock, err |-> FALSE],
    [b |-> ZeroBlock, err |-> TRUE] }

\* Mutant of generateShortCode: the encoded string is not cut to shortCodeLength.
generateShortCodeUncut(read) ==
  IF read.err THEN HexEncode(read.b) ELSE Base64URLEncode(read.b)

generateShortCode(read) ==
  IF read.err
  THEN SubSeq(HexEncode(read.b), 1, shortCodeLength)
  ELSE SubSeq(Base64URLEncode(read.b), 1, shortCodeLength)

NoCode == << >>
UnknownCode == << "z","z","z","z","z","z","z","z" >>
GeneratedCodes == { generateShortCode(r) : r \in RandReads }

\* ---------------------------------------------------------------- requests
LongURLs == { "https://example.com/a", "https://example.com/b" }
\* What json.Decode leaves in URLRequest, and whether it failed.
Bodies ==
  { [valid |-> FALSE, long_url |-> ""] }
  \cup { [valid |-> TRUE, long_url |-> u] : u \in LongURLs \cup { "" } }
\* The /shorten requests: a POST with each body, and a GET.
ShortenRequests ==
  { [method |-> "POST", body |-> b] : b \in Bodies }
  \cup { [method |-> "GET", body |-> [valid |-> TRUE, long_url |-> "https://example.com/a"]] }
ShortenPath == << "/", "shorten" >>
RedirectPaths ==
  { << "/" >> \o c : c \in GeneratedCodes \cup { UnknownCode, NoCode } }

NoBody == [valid |-> FALSE, long_url |-> ""]
NoReq ==
  [handler |-> "none", method |-> "", body |-> NoBody, path |-> << >>,
   arrived |-> 0, aborted |-> FALSE]
NoResp == [status |-> 0, short_url |-> << >>, location |-> "", error |-> ""]

ErrorResp(code, msg) ==
  [status |-> code, short_url |-> << >>, location |-> "", error |-> msg]

\* fmt.Sprintf("http://localhost:8080/%s", short)
ShortURL(short) == << "http://localhost:8080" >> \o << "/" >> \o short

\* Mutant of ShortenResp: the handler reports a failure after the record is written.
ShortenRespFailure(short) == ErrorResp(500, "Internal error")

ShortenResp(short) ==
  [status |-> 200, short_url |-> ShortURL(short), location |-> "", error |-> ""]

RedirectResp(long) ==
  [status |-> 302, short_url |-> << >>, location |-> long, error |-> ""]

\* The path a client requests when it follows a short URL.
PathOfURL(url) == SubSeq(url, 2, Len(url))

\* Mutant of PathCode: the leading slash is kept (r.URL.Path instead of r.URL.Path[1:]).
PathCodeKeepsSlash(path) == path

\* r.URL.Path[1:]
PathCode(path) == SubSeq(path, 2, Len(path))

\* Mutant of FindByLongURL: the scan never matches.
FindByLongURLNever(store, long) == { }


\* ------------------------------------------------------------------- store
\* The codes whose record holds the long URL (the matches of the range loop).
FindByLongURL(store, long) == { c \in DOMAIN store : store[c] = long }

\* Mutant of StorePut: the map is made anew with the one entry.
StorePutFresh(store, short, long) == [ c \in { short } |-> long ]


\* urlStore[shortCode] = req.LongURL
StorePut(store, short, long) ==
  [c \in DOMAIN store \cup { short } |-> IF c = short THEN long ELSE store[c]]

\* Mutant of Lookup: the ok result of the map read is ignored.
LookupIgnoresOk(store, short) ==
  [longURL |-> IF short \in DOMAIN store THEN store[short] ELSE "", ok |-> TRUE]

\* longURL, ok := urlStore[shortCode]
Lookup(store, short) ==
  IF short \in DOMAIN store
  THEN [longURL |-> store[short], ok |-> TRUE]
  ELSE [longURL |-> "", ok |-> FALSE]

\* Mutant of StoreAfterLookup: reading a missing key inserts it with the zero value.
StoreAfterLookupInserts(store, short) ==
  IF short \in DOMAIN store THEN store ELSE StorePut(store, short, "")

\* The map after the comma-ok read urlStore[shortCode]: a Go map read never
\* adds or removes a key.
StoreAfterLookup(store, short) == store

\* Mutant of StoreAfterAbort: the record under the request's code is rolled back.
StoreAfterAbortRollsBack(store, short) ==
  [c \in DOMAIN store \ { short } |-> store[c]]

\* The map after the client of a request has gone away or the response write
\* has failed: the handlers never look at the request's context and drop the
\* error of the response write, so nothing is undone.
StoreAfterAbort(store, short) == store

\* Mutant of CanLock: the handlers run without mutual exclusion.
CanLockAlways(m) == TRUE

\* mu.Lock() returns only when no goroutine holds mu.
CanLock(m) == m = Unlocked

\* ================================================================ Bookstore
\* Projects/16.Bookstore: handlers -> service -> repository -> the books table.

\* A Go error value: its identity (which allocation or package variable it is)
\* and its message. nil is NilError.
NilError == [ref |-> "nil", msg |-> ""]
\* errors.New allocates: the value is identical to no value that existed before.
errorsNew(site, msg) == [ref |-> site, msg |-> msg]
\* errors.Is on values with no Unwrap and no Is method: identity.
errorsIs(err, target) == err.ref = target.ref
\* The package variable gorm returns from First when no row matches.
ErrRecordNotFound == [ref |-> "gorm.ErrRecordNotFound", msg |-> "record not found"]
\* The database's refusal of a second row with the same isbn; the message
\* stands for the driver's text, which names the constraint.
ErrUniqueViolation ==
  [ref |-> "pgconn.PgError", msg |-> "duplicate key value violates unique constraint"]

ZeroBook == [ID |-> 0, Title |-> "", Author |-> "", ISBN |-> ""]
ISBNs == { "x", "y" }
NoBookBody == [valid |-> FALSE, book |-> ZeroBook]
CreateBodies ==
  { NoBookBody }
  \cup { [valid |-> TRUE, book |-> [ID |-> 0, Title |-> "t", Author |-> "a", ISBN |-> i]] :
           i \in ISBNs \cup { "" } }
UpdateBodies ==
  { NoBookBody,
    [valid |-> TRUE, book |-> [ID |-> 0, Title |-> "u", Author |-> "a", ISBN |-> ""]] }
\* The {id} segment of the path.
PathIDs == { << "1" >>, << "2" >>, << "x" >> }
NoPathID == << >>

DecimalDigits == << "0", "1", "2", "3", "4", "5", "6", "7", "8", "9" >>
IsDigit(ch) == \E i \in DOMAIN DecimalDigits : DecimalDigits[i] = ch
DigitValue(ch) == (CHOOSE i \in DOMAIN DecimalDigits : DecimalDigits[i] = ch) - 1

RECURSIVE ParseDigits(_)
ParseDigits(s) ==
  IF s = << >> THEN 0
  ELSE 10 * ParseDigits(SubSeq(s, 1, Len(s) - 1)) + DigitValue(s[Len(s)])

\* strconv.ParseUint(s, 10, 32) on the paths of PathIDs, whose values are far
\* below the 32-bit range limit.
ParseUint(s) ==
  IF s # << >> /\ (\A i \in DOMAIN s : IsDigit(s[i]))
  THEN [value |-> ParseDigits(s), ok |-> TRUE]
  ELSE [value |-> 0, ok |-> FALSE]

\* ---- repository: one statement each on the table, a function id -> row
MinOf(S) == CHOOSE x \in S : \A y \in S : x <= y

RepoGetBookByID(tbl, id) ==
  IF id \in DOMAIN tbl
  THEN [book |-> tbl[id], err |-> NilError]
  ELSE [book |-> ZeroBook, err |-> ErrRecordNotFound]

\* First orders by the primary key.
RepoGetBookByISBN(tbl, isbn) ==
  LET ids == { i \in DOMAIN tbl : tbl[i].ISBN = isbn } IN
    IF ids # { }
    THEN [book |-> tbl[MinOf(ids)], err |-> NilError]
    ELSE [book |-> ZeroBook, err |-> ErrRecordNotFound]

\* The unique index on isbn, for a row stored under id.
ISBNTaken(tbl, isbn, id) == \E i \in DOMAIN tbl \ { id } : tbl[i].ISBN = isbn

TablePut(tbl, id, book) ==
  [i \in DOMAIN tbl \cup { id } |-> IF i = id THEN [book EXCEPT !.ID = id] ELSE tbl[i]]

\* db.Create with the id drawn from the table's sequence.
RepoCreateBook(tbl, id, book) ==
  IF ISBNTaken(tbl, book.ISBN, id)
  THEN [tbl |-> tbl, book |-> book, err |-> ErrUniqueViolation]
  ELSE [tbl |-> TablePut(tbl, id, book), book |-> [book EXCEPT !.ID = id], err |-> NilError]

\* db.Save of a row with a primary key: update all fields, and insert the row
\* when the update matched none.
RepoUpdateBook(tbl, book) ==
  IF ISBNTaken(tbl, book.ISBN, book.ID)
  THEN [tbl |-> tbl, err |-> ErrUniqueViolation]
  ELSE [tbl |-> TablePut(tbl, book.ID, book), err |-> NilError]

\* db.Delete by primary key: no error when no row matches.
RepoDeleteBook(tbl, id) == [i \in DOMAIN tbl \ { id } |-> tbl[i]]

\* ---- service
\* The mapping the three lookups apply to the repository's error: it is compared
\* with a value errors.New makes on the spot.
NotFoundAs(err, msg) ==
  IF errorsIs(err, errorsNew("book_service.go", "record not found"))
  THEN errorsNew("book_service.go", msg)
  ELSE err

\* GetBookByID of the service, and the lookups UpdateBook and DeleteBook open with.
ServiceFind(tbl, id, msg) ==
  LET r == RepoGetBookByID(tbl, id) IN
    IF r.err # NilError
    THEN [book |-> ZeroBook, err |-> NotFoundAs(r.err, msg)]
    ELSE r

\* CreateBook of the service up to its repository call.
ServiceCheckISBN(tbl, isbn) ==
  LET r == RepoGetBookByISBN(tbl, isbn) IN
    IF r.err = NilError /\ r.book.ID # 0
    THEN errorsNew("book_service.go", "book with this ISBN already exists")
    ELSE NilError

\* ---- handlers
NoBookResp == [status |-> 0, body |-> ""]
\* http.Error(w, err.Error(), status), the status chosen by the error's text.
ErrorStatus(err, msg, status) ==
  [status |-> IF err.msg = msg THEN status ELSE 500, body |-> err.msg]

NoCall ==
  [pc |-> "idle", op |-> "none", id |-> NoPathID, body |-> NoBookBody,
   book |-> ZeroBook, repoErr |-> NilError, err |-> NilError, resp |-> NoBookResp]

BookRequests ==
  { [op |-> "list", id |-> NoPathID, body |-> NoBookBody] }
  \cup { [op |-> "create", id |-> NoPathID, body |-> b] : b \in CreateBodies }
  \cup { [op |-> o, id |-> i, body |-> NoBookBody] : o \in { "get", "delete" }, i \in PathIDs }
  \cup { [op |-> "update", id |-> i, body |-> b] : i \in PathIDs, b \in UpdateBodies }

VARIABLES
  urlStore,   \* the map short code -> long URL
  mu,         \* the goroutine holding the mutex, or Unlocked
  pc,         \* each goroutine's position in its handler
  req,        \* each goroutine's request
  shortCode,  \* each goroutine's local shortCode
  found,      \* redirectHandler's locals longURL, ok
  resp,       \* the response each goroutine has written
  randTape,   \* the reads the randomness source will deliver, periodically
  randPos,    \* the next read of the tape
  reqsLeft,   \* requests still to be received
  shortened,  \* the successful /shorten responses, in the order written
  books,      \* Bookstore: the books table, id -> row
  nextID,     \* Bookstore: the next value of the table's id sequence
  call,       \* Bookstore: each goroutine's request, position, locals and response
  callsLeft   \* Bookstore: requests still to be received

urlVars ==
  << urlStore, mu, pc, req, shortCode, found, resp, randTape, randPos,
     reqsLeft, shortened >>

bookVars == << books, nextID, call, callsLeft >>

vars == << urlVars, bookVars >>

\* The Bookstore after AutoMigrate on an empty database, for a run of n requests.
BookInitOf(n) ==
  /\ books = << >>
  /\ nextID = 1
  /\ call = [p \in Procs |-> NoCall]
  /\ callsLeft = n

NoLookup == [longURL |-> "", ok |-> FALSE]

\* The URL shortener at start-up, for a run of reqs requests and a randomness
\* source of period len.
URLInitOf(reqs, len) ==
  /\ urlStore = << >>
  /\ mu = Unlocked
  /\ pc = [p \in Procs |-> "idle"]
  /\ req = [p \in Procs |-> NoReq]
  /\ shortCode = [p \in Procs |-> NoCode]
  /\ found = [p \in Procs |-> NoLookup]
  /\ resp = [p \in Procs |-> NoResp]
  /\ randTape \in [1 .. len -> RandReads]
  /\ randPos = 1
  /\ reqsLeft = reqs
  /\ shortened = << >>

\* The state at start-up of a run of the URL shortener.
InitOf(reqs, len) == URLInitOf(reqs, len) /\ BookInitOf(0)

Init == InitOf(MaxReqs, TapeLen)

\* The same start-up with one more request and a longer period.
InitLong == InitOf(MaxReqs + 1, TapeLen + 1)

\* ------------------------------------------------------- shortenURLHandler
\* A goroutine that is free, or whose handler has returned, takes a request.
Free(p) == pc[p] \in { "idle", "done" }

ReceiveShorten(p) ==
  /\ Free(p)
  /\ reqsLeft > 0
  /\ \E r \in ShortenRequests :
       req' = [req EXCEPT ![p] =
                 [handler |-> "shorten", method |-> r.method, body |-> r.body,
                  path |-> ShortenPath, arrived |-> Len(shortened),
                  aborted |-> FALSE]]
  /\ pc' = [pc EXCEPT ![p] = "sMethod"]
  /\ shortCode' = [shortCode EXCEPT ![p] = NoCode]
  /\ found' = [found EXCEPT ![p] = NoLookup]
  /\ resp' = [resp EXCEPT ![p] = NoResp]
  /\ reqsLeft' = reqsLeft - 1
  /\ UNCHANGED << urlStore, mu, randTape, randPos, shortened >>
  /\ UNCHANGED bookVars

\* Mutant of ShortenCheckMethod: the method is not checked.
ShortenCheckMethodSkipped(p) ==
  /\ pc[p] = "sMethod"
  /\ pc' = [pc EXCEPT ![p] = "sDecode"]
  /\ UNCHANGED << urlStore, mu, req, shortCode, found, resp, randTape, randPos, reqsLeft, shortened >>
  /\ UNCHANGED bookVars


ShortenCheckMethod(p) ==
  /\ pc[p] = "sMethod"
  /\ IF req[p].method # "POST"
     THEN /\ resp' = [resp EXCEPT ![p] = ErrorResp(405, "Method not allowed")]
          /\ pc' = [pc EXCEPT ![p] = "done"]
     ELSE /\ pc' = [pc EXCEPT ![p] = "sDecode"]
          /\ UNCHANGED resp
  /\ UNCHANGED << urlStore, mu, req, shortCode, found, randTape, randPos, reqsLeft, shortened >>
  /\ UNCHANGED bookVars

\* Mutant of BodyError: the empty-URL check is missing.
BodyErrorNoEmptyCheck(body) ==
  IF ~body.valid THEN "Invalid request body" ELSE ""

\* The outcome of decoding and validating the body: "" when it is accepted.
BodyError(body) ==
  IF ~body.valid THEN "Invalid request body"
  ELSE IF body.long_url = "" THEN "Long URL cannot be empty"
  ELSE ""

ShortenDecode(p) ==
  /\ pc[p] = "sDecode"
  /\ IF BodyError(req[p].body) # ""
     THEN /\ resp' = [resp EXCEPT ![p] = ErrorResp(400, BodyError(req[p].body))]
          /\ pc' = [pc EXCEPT ![p] = "done"]
     ELSE /\ pc' = [pc EXCEPT ![p] = "sLock"]
          /\ UNCHANGED resp
  /\ UNCHANGED << urlStore, mu, req, shortCode, found, randTape, randPos, reqsLeft, shortened >>
  /\ UNCHANGED bookVars

ShortenLock(p) ==
  /\ pc[p] = "sLock"
  /\ CanLock(mu)
  /\ mu' = p
  /\ pc' = [pc EXCEPT ![p] = "sScan"]
  /\ UNCHANGED << urlStore, req, shortCode, found, resp, randTape, randPos, reqsLeft, shortened >>
  /\ UNCHANGED bookVars

LogEntry(p, short) ==
  [long_url |-> req[p].body.long_url, short_url |-> ShortURL(short),
   arrived |-> req[p].arrived]

\* Mutant of ShortenScan: per-operation locking, the lock is released when the
\* scan finds nothing, before the code is generated and inserted.
ShortenScanThenRelease(p) ==
  /\ pc[p] = "sScan"
  /\ LET hits == FindByLongURL(urlStore, req[p].body.long_url) IN
       IF hits # { }
       THEN \E short \in hits :
              /\ resp' = [resp EXCEPT ![p] = ShortenResp(short)]
              /\ shortened' = Append(shortened, LogEntry(p, short))
              /\ pc' = [pc EXCEPT ![p] = "sUnlock"]
              /\ UNCHANGED mu
       ELSE /\ pc' = [pc EXCEPT ![p] = "sGen"]
            /\ mu' = Unlocked
            /\ UNCHANGED << resp, shortened >>
  /\ UNCHANGED << urlStore, req, shortCode, found, randTape, randPos, reqsLeft >>
  /\ UNCHANGED bookVars

\* Mutant of ShortenScan: the code is generated first and the scan follows, in
\* the order the handler's description lists the steps.
ShortenScanGeneratesFirst(p) ==
  /\ pc[p] = "sScan"
  /\ shortCode' = [shortCode EXCEPT ![p] = generateShortCode(randTape[randPos])]
  /\ randPos' = (randPos % Len(randTape)) + 1
  /\ LET hits == FindByLongURL(urlStore, req[p].body.long_url) IN
       IF hits # { }
       THEN \E short \in hits :
              /\ resp' = [resp EXCEPT ![p] = ShortenResp(short)]
              /\ shortened' = Append(shortened, LogEntry(p, short))
              /\ pc' = [pc EXCEPT ![p] = "sUnlock"]
       ELSE /\ pc' = [pc EXCEPT ![p] = "sGen"]
            /\ UNCHANGED << resp, shortened >>
  /\ UNCHANGED << urlStore, mu, req, found, randTape, reqsLeft >>
  /\ UNCHANGED bookVars


\* The range loop: the first matching entry in the map's iteration order, which
\* may be any of the matches, is answered; with no match the loop falls through.
ShortenScan(p) ==
  /\ pc[p] = "sScan"
  /\ LET hits == FindByLongURL(urlStore, req[p].body.long_url) IN
       IF hits # { }
       THEN \E short \in hits :
              /\ resp' = [resp EXCEPT ![p] = ShortenResp(short)]
              /\ shortened' = Append(shortened, LogEntry(p, short))
              /\ pc' = [pc EXCEPT ![p] = "sUnlock"]
       ELSE /\ pc' = [pc EXCEPT ![p] = "sGen"]
            /\ UNCHANGED << resp, shortened >>
  /\ UNCHANGED << urlStore, mu, req, shortCode, found, randTape, randPos, reqsLeft >>
  /\ UNCHANGED bookVars

ShortenInsert(p) ==
  /\ pc[p] = "sGen"
  /\ LET short == generateShortCode(randTape[randPos]) IN
       /\ shortCode' = [shortCode EXCEPT ![p] = short]
       /\ urlStore' = StorePut(urlStore, short, req[p].body.long_url)
       /\ resp' = [resp EXCEPT ![p] = ShortenResp(short)]
       /\ shortened' = Append(shortened, LogEntry(p, short))
  /\ randPos' = (randPos % Len(randTape)) + 1
  /\ pc' = [pc EXCEPT ![p] = "sUnlock"]
  /\ UNCHANGED << mu, req, found, randTape, reqsLeft >>
  /\ UNCHANGED bookVars

\* Mutant of ShortenUnlock: the handler returns without releasing the lock.
ShortenUnlockForgotten(p) ==
  /\ pc[p] = "sUnlock"
  /\ pc' = [pc EXCEPT ![p] = "done"]
  /\ UNCHANGED << urlStore, mu, req, shortCode, found, resp, randTape, randPos, reqsLeft, shortened >>
  /\ UNCHANGED bookVars


\* defer mu.Unlock()
ShortenUnlock(p) ==
  /\ pc[p] = "sUnlock"
  /\ mu' = Unlocked
  /\ pc' = [pc EXCEPT ![p] = "done"]
  /\ UNCHANGED << urlStore, req, shortCode, found, resp, randTape, randPos, reqsLeft, shortened >>
  /\ UNCHANGED bookVars

\* --------------------------------------------------------- redirectHandler
ReceiveRedirect(p) ==
  /\ Free(p)
  /\ reqsLeft > 0
  /\ \E path \in RedirectPaths :
       /\ req' = [req EXCEPT ![p] =
                    [handler |-> "redirect", method |-> "GET", body |-> NoBody,
                     path |-> path, arrived |-> Len(shortened),
                     aborted |-> FALSE]]
       /\ shortCode' = [shortCode EXCEPT ![p] = PathCode(path)]
  /\ pc' = [pc EXCEPT ![p] = "rLock"]
  /\ found' = [found EXCEPT ![p] = NoLookup]
  /\ resp' = [resp EXCEPT ![p] = NoResp]
  /\ reqsLeft' = reqsLeft - 1
  /\ UNCHANGED << urlStore, mu, randTape, randPos, shortened >>
  /\ UNCHANGED bookVars

\* mu.Lock(); longURL, ok := urlStore[shortCode]
RedirectRead(p) ==
  /\ pc[p] = "rLock"
  /\ CanLock(mu)
  /\ mu' = p
  /\ found' = [found EXCEPT ![p] = Lookup(urlStore, shortCode[p])]
  /\ urlStore' = StoreAfterLookup(urlStore, shortCode[p])
  /\ pc' = [pc EXCEPT ![p] = "rUnlock"]
  /\ UNCHANGED << req, shortCode, resp, randTape, randPos, reqsLeft, shortened >>
  /\ UNCHANGED bookVars

RedirectUnlock(p) ==
  /\ pc[p] = "rUnlock"
  /\ mu' = Unlocked
  /\ pc' = [pc EXCEPT ![p] = "rRespond"]
  /\ UNCHANGED << urlStore, req, shortCode, found, resp, randTape, randPos, reqsLeft, shortened >>
  /\ UNCHANGED bookVars

RedirectRespond(p) ==
  /\ pc[p] = "rRespond"
  /\ resp' = [resp EXCEPT ![p] =
                IF ~found[p].ok
                THEN ErrorResp(404, "Short URL not found")
                ELSE RedirectResp(found[p].longURL)]
  /\ pc' = [pc EXCEPT ![p] = "done"]
  /\ UNCHANGED << urlStore, mu, req, shortCode, found, randTape, randPos, reqsLeft, shortened >>
  /\ UNCHANGED bookVars

Next ==
  \E p \in Procs :
    \/ ReceiveShorten(p)
    \/ ShortenCheckMethod(p)
    \/ ShortenDecode(p)
    \/ ShortenLock(p)
    \/ ShortenScan(p)
    \/ ShortenInsert(p)
    \/ ShortenUnlock(p)
    \/ ReceiveRedirect(p)
    \/ RedirectRead(p)
    \/ RedirectUnlock(p)
    \/ RedirectRespond(p)

Spec == Init /\ [][Next]_vars

SpecLong == InitLong /\ [][Next]_vars

\* The client of a request in flight closes its connection. The handler is not
\* told and runs on; what it writes from then on reaches nobody.
ClientAbort(p) ==
  /\ ~Free(p)
  /\ ~req[p].aborted
  /\ req' = [req EXCEPT ![p].aborted = TRUE]
  /\ urlStore' = StoreAfterAbort(urlStore, shortCode[p])
  /\ UNCHANGED << mu, pc, shortCode, found, resp, randTape, randPos, reqsLeft, shortened >>
  /\ UNCHANGED bookVars

NextAbort == Next \/ \E p \in Procs : ClientAbort(p)

\* The server with clients that may give up waiting.
SpecAbort == Init /\ [][NextAbort]_vars

\* A step of the handler that goroutine p is running (every step but a receive).
HandlerStep(p) ==
  \/ ShortenCheckMethod(p)
  \/ ShortenDecode(p)
  \/ ShortenLock(p)
  \/ ShortenScan(p)
  \/ ShortenInsert(p)
  \/ ShortenUnlock(p)
  \/ RedirectRead(p)
  \/ RedirectUnlock(p)
  \/ RedirectRespond(p)

\* The Go scheduler runs every runnable goroutine, and a goroutine blocked in
\* mu.Lock is woken once the mutex stays free; clients need not send requests.
FairSpec == Init /\ [][Next]_vars /\ \A p \in Procs : WF_vars(HandlerStep(p))


\* ================================================= Bookstore: the handlers
BookFree(p) == call[p].pc \in { "idle", "done" }

\* The router hands a request to the handler of its method and path.
ReceiveBook(p) ==
  /\ BookFree(p)
  /\ callsLeft > 0
  /\ \E r \in BookRequests :
       call' = [call EXCEPT ![p] =
                  [NoCall EXCEPT !.pc = r.op, !.op = r.op, !.id = r.id, !.body = r.body]]
  /\ callsLeft' = callsLeft - 1
  /\ UNCHANGED << books, nextID >>
  /\ UNCHANGED urlVars

Answer(p, c, response) ==
  call' = [call EXCEPT ![p] = [c EXCEPT !.pc = "done", !.resp = response]]

\* GET /books
HandlerGetAllBooks(p) ==
  /\ call[p].pc = "list"
  /\ Answer(p, call[p], [status |-> 200, body |-> { books[i] : i \in DOMAIN books }])
  /\ UNCHANGED << books, nextID, callsLeft >>
  /\ UNCHANGED urlVars

\* GET /books/{id}
HandlerGetBookByID(p) ==
  /\ call[p].pc = "get"
  /\ LET id == ParseUint(call[p].id)
         r == ServiceFind(books, id.value, "book not found")
         c == [call[p] EXCEPT !.repoErr = RepoGetBookByID(books, id.value).err,
                              !.err = r.err, !.book = r.book]
     IN  IF ~id.ok
         THEN Answer(p, call[p], [status |-> 400, body |-> "Invalid book ID"])
         ELSE IF r.err # NilError
         THEN Answer(p, c, ErrorStatus(r.err, "book not found", 404))
         ELSE Answer(p, c, [status |-> 200, body |-> r.book])
  /\ UNCHANGED << books, nextID, callsLeft >>
  /\ UNCHANGED urlVars

\* POST /books up to the service's GetBookByISBN.
HandlerCreateBook(p) ==
  /\ call[p].pc = "create"
  /\ LET b == call[p].body.book
         e == ServiceCheckISBN(books, b.ISBN)
     IN  IF ~call[p].body.valid
         THEN Answer(p, call[p], [status |-> 400, body |-> "Invalid request body"])
         ELSE IF b.Title = "" \/ b.Author = "" \/ b.ISBN = ""
         THEN Answer(p, call[p],
                     [status |-> 400, body |-> "Title, Author, and ISBN are required"])
         ELSE IF e # NilError
         THEN Answer(p, [call[p] EXCEPT !.err = e],
                     ErrorStatus(e, "book with this ISBN already exists", 409))
         ELSE call' = [call EXCEPT ![p].pc = "createInsert", ![p].book = b]
  /\ UNCHANGED << books, nextID, callsLeft >>
  /\ UNCHANGED urlVars

\* The service's bookRepo.CreateBook and the handler's answer. The sequence
\* gives out its value whether or not the row is accepted.
CreateBookInsert(p) ==
  /\ call[p].pc = "createInsert"
  /\ LET r == RepoCreateBook(books, nextID, call[p].book)
         c == [call[p] EXCEPT !.repoErr = r.err, !.err = r.err, !.book = r.book]
     IN  /\ books' = r.tbl
         /\ IF r.err # NilError
            THEN Answer(p, c, ErrorStatus(r.err, "book with this ISBN already exists", 409))
            ELSE Answer(p, c, [status |-> 201, body |-> r.book])
  /\ nextID' = nextID + 1
  /\ UNCHANGED callsLeft
  /\ UNCHANGED urlVars

\* PUT /books/{id} up to the service's GetBookByID.
HandlerUpdateBook(p) ==
  /\ call[p].pc = "update"
  /\ LET id == ParseUint(call[p].id)
         u == call[p].body.book
         r == ServiceFind(books, id.value, "book not found for update")
         c == [call[p] EXCEPT !.repoErr = RepoGetBookByID(books, id.value).err,
                              !.err = r.err]
     IN  IF ~id.ok
         THEN Answer(p, call[p], [status |-> 400, body |-> "Invalid book ID"])
         ELSE IF ~call[p].body.valid
         THEN Answer(p, call[p], [status |-> 400, body |-> "Invalid request body"])
         ELSE IF r.err # NilError
         THEN Answer(p, c, ErrorStatus(r.err, "book not found for update", 404))
         ELSE call' = [call EXCEPT ![p] =
                         [c EXCEPT !.pc = "updateSave",
                                   !.book = [r.book EXCEPT !.Title = u.Title,
                                                           !.Author = u.Author]]]
  /\ UNCHANGED << books, nextID, callsLeft >>
  /\ UNCHANGED urlVars

\* The service's bookRepo.UpdateBook; the handler answers the body it decoded.
UpdateBookSave(p) ==
  /\ call[p].pc = "updateSave"
  /\ LET r == RepoUpdateBook(books, call[p].book)
         c == [call[p] EXCEPT !.repoErr = r.err, !.err = r.err]
     IN  /\ books' = r.tbl
         /\ IF r.err # NilError
            THEN Answer(p, c, ErrorStatus(r.err, "book not found for update", 404))
            ELSE Answer(p, c, [status |-> 200, body |-> call[p].body.book])
  /\ UNCHANGED << nextID, callsLeft >>
  /\ UNCHANGED urlVars

\* DELETE /books/{id} up to the service's GetBookByID.
HandlerDeleteBook(p) ==
  /\ call[p].pc = "delete"
  /\ LET id == ParseUint(call[p].id)
         r == ServiceFind(books, id.value, "book not found for deletion")
         c == [call[p] EXCEPT !.repoErr = RepoGetBookByID(books, id.value).err,
                              !.err = r.err]
     IN  IF ~id.ok
         THEN Answer(p, call[p], [status |-> 400, body |-> "Invalid book ID"])
         ELSE IF r.err # NilError
         THEN Answer(p, c, ErrorStatus(r.err, "book not found for deletion", 404))
         ELSE call' = [call EXCEPT ![p] = [c EXCEPT !.pc = "deleteRow"]]
  /\ UNCHANGED << books, nextID, callsLeft >>
  /\ UNCHANGED urlVars

\* The service's bookRepo.DeleteBook and the 204.
DeleteBookRow(p) ==
  /\ call[p].pc = "deleteRow"
  /\ books' = RepoDeleteBook(books, ParseUint(call[p].id).value)
  /\ Answer(p, call[p], [status |-> 204, body |-> ""])
  /\ UNCHANGED << nextID, callsLeft >>
  /\ UNCHANGED urlVars

NextBook ==
  \E p \in Procs :
    \/ ReceiveBook(p)
    \/ HandlerGetAllBooks(p)
    \/ HandlerGetBookByID(p)
    \/ HandlerCreateBook(p)
    \/ CreateBookInsert(p)
    \/ HandlerUpdateBook(p)
    \/ UpdateBookSave(p)
    \/ HandlerDeleteBook(p)
    \/ DeleteBookRow(p)

\* The Bookstore server alone: the URL shortener stays as it starts.
InitBook ==
  /\ URLInitOf(0, 1)
  /\ randTape[1] = [b |-> ZeroBlock, err |-> FALSE]
  /\ BookInitOf(MaxReqs + 1)

SpecBook == InitBook /\ [][NextBook]_vars

\* ------------------------------------------------------------------ helpers
Last(seq) == seq[Len(seq)]
ShortOf(p) == PathCode(PathOfURL(resp[p].short_url))
ReturnedURLs == { shortened[i].short_url : i \in DOMAIN shortened }
\* The read the generator's i-th next call will get, and whether its code is stored.
TapeAt(i) == randTape[((randPos - 1 + i) % Len(randTape)) + 1]
CollidesAt(i) == generateShortCode(TapeAt(i)) \in DOMAIN urlStore
\* Goroutine p takes the step from the generation point of its Shorten request.
InsertStep(p) == pc[p] = "sGen" /\ pc'[p] # "sGen"

\* ------------------------------------------------------------------- claims

\* C1: any two successful Shorten calls for the same long URL return the same
\* short code, whatever other calls happen between them.
C1_Idempotence ==
  \A i, j \in DOMAIN shortened :
    shortened[i].long_url = shortened[j].long_url
      => shortened[i].short_url = shortened[j].short_url

\* C2: Resolve applied to the code just returned by Shorten(longURL) returns
\* longURL: a redirect lookup of the path of the latest short URL returned, made
\* before any later Shorten answers, finds the long URL that was submitted, and
\* the store read by the same lookup in the state of the answer maps to it too.
C2_RoundTrip ==
  /\ \A q \in Procs :
       ( /\ pc[q] = "rUnlock"
         /\ shortened # << >>
         /\ req[q].path = PathOfURL(Last(shortened).short_url) )
       => found[q] = [longURL |-> Last(shortened).long_url, ok |-> TRUE]
  /\ \A p \in Procs :
       pc[p] = "sUnlock"
       => Lookup(urlStore, ShortOf(p)) = [longURL |-> req[p].body.long_url, ok |-> TRUE]

C2_Witness ==
  \E q \in Procs :
    /\ pc[q] = "rUnlock"
    /\ shortened # << >>
    /\ req[q].path = PathOfURL(Last(shortened).short_url)
    /\ found[q].ok

\* C3: Shorten calls for the same long URL that run concurrently, with no
\* Shorten of another URL answered between them, all return one code, and the
\* store holds exactly one record for that URL, under that code.
C3_ConcurrentDedup ==
  /\ \A i, j \in DOMAIN shortened :
       ( /\ i < j
         /\ \A k \in i .. j : shortened[k].long_url = shortened[i].long_url )
       => shortened[i].short_url = shortened[j].short_url
  /\ shortened # << >>
       => \E c \in DOMAIN urlStore :
            /\ FindByLongURL(urlStore, Last(shortened).long_url) = { c }
            /\ ShortURL(c) = Last(shortened).short_url

\* Two calls for one URL were in flight together (the second arrived before the
\* first was answered) and both have been answered.
C3_Witness ==
  \E i, j \in DOMAIN shortened :
    /\ i < j
    /\ shortened[i].long_url = shortened[j].long_url
    /\ shortened[j].arrived < i
    /\ \A k \in i .. j : shortened[k].long_url = shortened[i].long_url

\* C4: every long URL that some Shorten call has answered is the target of
\* exactly one stored short code.
C4_DedupInvariant ==
  \A i \in DOMAIN shortened :
    Cardinality(FindByLongURL(urlStore, shortened[i].long_url)) = 1

\* C5: once a short code maps to a long URL it maps to that long URL in every
\* later state: no step updates or deletes a record.
C5_RecordPermanence ==
  [][\A c \in DOMAIN urlStore :
       c \in DOMAIN urlStore' /\ urlStore'[c] = urlStore[c]]_vars

\* C6: inserting a candidate code that is already stored fails with a collision
\* outcome (the request does not answer with that code) and leaves the store
\* as it was.
C6_InsertCollisionFails ==
  [][\A p \in Procs :
       (InsertStep(p) /\ shortCode'[p] \in DOMAIN urlStore)
       => (urlStore' = urlStore /\ resp'[p].short_url # ShortURL(shortCode'[p]))]_vars

\* C7: when the generator returns stored codes on up to K-1 consecutive attempts
\* and then a fresh code, Shorten of a new URL answers with the fresh code and
\* the store gains the URL under the fresh code only.
C7_CollisionRetry ==
  [][\A p \in Procs : \A j \in 0 .. RetryLimit - 1 :
       ( /\ InsertStep(p)
         /\ \A i \in 0 .. j - 1 : CollidesAt(i)
         /\ ~CollidesAt(j) )
       => LET fresh == generateShortCode(TapeAt(j)) IN
            /\ resp'[p] = ShortenResp(fresh)
            /\ urlStore' = StorePut(urlStore, fresh, req[p].body.long_url)]_vars

\* C8: when the generator returns stored codes on K consecutive attempts, the
\* Shorten request fails with a server error and the store is unchanged.
C8_RetryExhaustion ==
  [][\A p \in Procs :
       (InsertStep(p) /\ \A i \in 0 .. RetryLimit - 1 : CollidesAt(i))
       => (urlStore' = urlStore /\ resp'[p].status = 500)]_vars

\* C9: a Shorten request with an empty long URL is answered 400 and has no side
\* effect: it never holds the lock, no code is generated for it, and nothing is
\* stored or answered for the empty URL.
C9_EmptyRejected ==
  /\ \A p \in Procs :
       ( /\ req[p].handler = "shorten"
         /\ req[p].method = "POST"
         /\ req[p].body.valid
         /\ req[p].body.long_url = "" )
       => /\ pc[p] \in { "sMethod", "sDecode", "done" }
          /\ mu # p
          /\ shortCode[p] = NoCode
          /\ pc[p] = "done" => resp[p] = ErrorResp(400, "Long URL cannot be empty")
  /\ \A c \in DOMAIN urlStore : urlStore[c] # ""
  /\ \A i \in DOMAIN shortened : shortened[i].long_url # ""

C9_Witness ==
  \E p \in Procs :
    /\ req[p].handler = "shorten"
    /\ req[p].method = "POST"
    /\ req[p].body.valid
    /\ req[p].body.long_url = ""
    /\ pc[p] = "done"
    /\ resp[p].status = 400
    /\ mu # Unlocked

\* C10: a redirect for a code that no Shorten call has returned is answered
\* 404 Not Found, whatever the store holds.
C10_UnknownCodeNotFound ==
  \A p \in Procs :
    ( /\ req[p].handler = "redirect"
      /\ ShortURL(PathCode(req[p].path)) \notin ReturnedURLs )
    => /\ ~found[p].ok
       /\ pc[p] = "done" => resp[p] = ErrorResp(404, "Short URL not found")

C10_Witness ==
  \E p \in Procs :
    /\ req[p].handler = "redirect"
    /\ ShortURL(PathCode(req[p].path)) \notin ReturnedURLs
    /\ PathCode(req[p].path) \in GeneratedCodes
    /\ pc[p] = "done"
    /\ resp[p].status = 404
    /\ urlStore # << >>

\* Goroutine p takes a step of its redirect request.
RedirectStep(p) == req[p].handler = "redirect" /\ pc'[p] # pc[p] /\ ~Free(p)

\* C11: Resolve is read-only: every step of a redirect request, whether it ends
\* 302 or 404, leaves the store contents as they were.
C11_ResolveReadOnly ==
  [][\A p \in Procs : RedirectStep(p) => urlStore' = urlStore]_vars

\* A redirect that found its code has been answered.
C11_Witness ==
  \E p \in Procs :
    /\ req[p].handler = "redirect"
    /\ pc[p] = "done"
    /\ resp[p].status = 302
    /\ urlStore # << >>

\* C12: a Shorten that succeeds for a long URL not yet stored adds exactly one
\* record; a Shorten that hits an existing mapping or fails leaves the records
\* unchanged.
C12_RecordCountEffect ==
  [][\A p \in Procs :
       (req[p].handler = "shorten" /\ pc'[p] # pc[p] /\ ~Free(p))
       => IF InsertStep(p)
          THEN Cardinality(DOMAIN urlStore') = Cardinality(DOMAIN urlStore) + 1
          ELSE urlStore' = urlStore]_vars

\* Goroutine p is between mu.Lock() and the deferred mu.Unlock() of Shorten.
InShortenCS(p) == pc[p] \in { "sScan", "sGen", "sUnlock" }
\* Goroutine p is between mu.Lock() and mu.Unlock() of the redirect's read.
InReadCS(p) == pc[p] = "rUnlock"

\* C13: the dedup check, the generation and the insert of one Shorten request
\* run in one exclusive critical section: the request holds mu throughout, no
\* other Shorten is inside its own section meanwhile, and at the insert the
\* dedup check's answer (no record for the URL) still holds.
C13_AtomicShorten ==
  /\ \A p \in Procs : InShortenCS(p) => mu = p
  /\ \A p, q \in Procs : (InShortenCS(p) /\ InShortenCS(q)) => p = q
  /\ \A p \in Procs :
       pc[p] = "sGen" => FindByLongURL(urlStore, req[p].body.long_url) = { }

\* One Shorten is between its dedup check and its insert while another Shorten
\* of the same URL waits for the lock.
C13_Witness ==
  \E p, q \in Procs :
    /\ pc[p] = "sGen"
    /\ pc[q] = "sLock"
    /\ req[p].body.long_url = req[q].body.long_url

\* C14: no redirect reads the store while a Shorten is inside its critical
\* section, so what a redirect has read is the store as it stands, before or
\* after a Shorten's insert and never in between.
C14_ResolveSerialized ==
  /\ \A p, q \in Procs : ~(InReadCS(q) /\ InShortenCS(p))
  /\ \A q \in Procs : InReadCS(q) => found[q] = Lookup(urlStore, shortCode[q])

\* A redirect that arrived before a Shorten answered has read the record that
\* Shorten inserted.
C14_Witness ==
  \E q \in Procs :
    /\ InReadCS(q)
    /\ req[q].arrived < Len(shortened)
    /\ req[q].path = PathOfURL(Last(shortened).short_url)
    /\ found[q].ok

\* C15: when the randomness source fails during Shorten the request fails with
\* an error: no code is derived from the buffer by another encoding and no
\* record is stored.
C15_GeneratorFailureFatal ==
  [][\A p \in Procs :
       (InsertStep(p) /\ TapeAt(0).err)
       => /\ urlStore' = urlStore
          /\ shortCode'[p] = NoCode
          /\ resp'[p].status >= 500]_vars

\* C16: while a Shorten request holds the store lock it has written no
\* response: the response is written only after the lock is released.
C16_NoResponseUnderLock ==
  \A p \in Procs : (InShortenCS(p) /\ mu = p) => resp[p] = NoResp

\* The characters of the base64url alphabet.
Base64URLChars == { Base64URLAlphabet[i] : i \in DOMAIN Base64URLAlphabet }

\* C17: every stored short code has length exactly 8 and only characters of
\* the base64url alphabet, on the normal and on the randomness-failure path.
C17_CodeFormat ==
  \A c \in DOMAIN urlStore :
    /\ Len(c) = shortCodeLength
    /\ \A i \in 1 .. Len(c) : c[i] \in Base64URLChars

\* The store holds a code of the failure path and a code of the normal path.
C17_Witness ==
  /\ generateShortCode([b |-> ZeroBlock, err |-> TRUE]) \in DOMAIN urlStore
  /\ generateShortCode([b |-> MaxBlock, err |-> FALSE]) \in DOMAIN urlStore

\* Goroutine p takes a step of its Shorten request.
ShortenStep(p) == req[p].handler = "shorten" /\ pc'[p] # pc[p] /\ ~Free(p)

\* C18: a Shorten request that ends in a failure outcome leaves the store as it
\* was: a step that answers with a failure changes nothing in the store, the
\* failed request generated no code, and any step of a request that does change
\* the store answers 200.
C18_NoPartialState ==
  [][\A p \in Procs :
       ShortenStep(p)
       => /\ resp'[p].status >= 400 => (urlStore' = urlStore /\ shortCode'[p] = NoCode)
          /\ urlStore' # urlStore => resp'[p].status = 200]_vars

\* A Shorten request has failed while the store holds a record.
C18_Witness ==
  \E p \in Procs :
    /\ req[p].handler = "shorten"
    /\ pc[p] = "done"
    /\ resp[p].status >= 400
    /\ urlStore # << >>

\* Goroutine p is at a point where it reads or writes urlStore.
InCS(p) == InShortenCS(p) \/ InReadCS(p)

\* C19: every read and write of urlStore is made while holding mu: a goroutine
\* between its Lock and Unlock is the holder of mu, so no two goroutines are
\* at the map at the same time.
C19_MutualExclusion ==
  /\ \A p \in Procs : InCS(p) => mu = p
  /\ Cardinality({ p \in Procs : InCS(p) }) <= 1

\* One goroutine is at the map while another waits for the lock.
C19_Witness ==
  \E p, q \in Procs :
    /\ InCS(p)
    /\ pc[q] \in { "sLock", "rLock" }

\* C20 as stated: two redirects may be in their read sections together, so a
\* redirect waiting for the lock is not held back by a redirect that is reading.
C20_SharedReads ==
  \A p, q \in Procs :
    (p # q /\ InReadCS(p) /\ pc[q] = "rLock") => ENABLED RedirectRead(q)

\* C20 as amended: mu is an exclusive lock, so two redirects are never in their
\* read sections at the same time.
C20_ExclusiveReads ==
  \A p, q \in Procs : (InReadCS(p) /\ InReadCS(q)) => p = q

\* A redirect is reading while another redirect waits for the lock.
C20_Witness ==
  \E p, q \in Procs : p # q /\ InReadCS(p) /\ pc[q] = "rLock"

\* The codes the fallback path of generateShortCode can produce.
FallbackCodes == { generateShortCode(r) : r \in { x \in RandReads : x.err } }

\* C21: the fallback path of generateShortCode still yields unique codes: two
\* Shorten calls for distinct long URLs that both took the fallback path are
\* answered distinct codes, so neither record overwrites the other.
C21_FallbackUnique ==
  \A i, j \in DOMAIN shortened :
    ( /\ shortened[i].long_url # shortened[j].long_url
      /\ shortened[i].short_url \in { ShortURL(c) : c \in FallbackCodes }
      /\ shortened[j].short_url \in { ShortURL(c) : c \in FallbackCodes } )
    => /\ shortened[i].short_url # shortened[j].short_url
       /\ \E c \in DOMAIN urlStore : urlStore[c] = shortened[i].long_url

C24_MethodGate ==
  [][ \A p \in Procs :
        ( /\ req[p].handler = "shorten"
          /\ req[p].method # "POST"
          /\ pc[p] # "done"
          /\ pc'[p] # pc[p] )
        => /\ pc[p] = "sMethod"
           /\ pc'[p] = "done"
           /\ resp'[p] = ErrorResp(405, "Method not allowed")
           /\ mu' = mu
           /\ mu # p
           /\ randPos' = randPos
           /\ shortCode'[p] = NoCode
           /\ urlStore' = urlStore
           /\ shortened' = shortened ]_vars

\* A non-POST request that carried a well-formed body was answered 405.
C24_Witness ==
  \E p \in Procs :
    /\ pc[p] = "done"
    /\ req[p].handler = "shorten"
    /\ req[p].method # "POST"
    /\ req[p].body.valid
    /\ resp[p].status = 405

\* C25: at most one code per URL, even when the generator repeats codes: no two
\* distinct stored codes map to the same long URL.
C25_OneCodePerURL ==
  \A c1, c2 \in DOMAIN urlStore :
    urlStore[c1] = urlStore[c2] => c1 = c2

\* The generator repeated a code: two answers for distinct URLs carry one code.
C25_Witness ==
  /\ urlStore # << >>
  /\ \E i, j \in DOMAIN shortened :
       /\ shortened[i].long_url # shortened[j].long_url
       /\ shortened[i].short_url = shortened[j].short_url

\* C26: the set of stored codes only grows: a code that a lookup finds in the
\* store is found by the lookup in every later state of the store.
C26_CodesOnlyGrow ==
  [][ \A c \in GeneratedCodes \cup { UnknownCode, NoCode } :
        Lookup(urlStore, c).ok => Lookup(urlStore', c).ok ]_vars

\* A Resolve has found a code, and the code is still stored.
C26_Witness ==
  \E q \in Procs :
    /\ InReadCS(q)
    /\ found[q].ok
    /\ shortCode[q] \in DOMAIN urlStore

\* C28: the code answered on the dedup-hit path does not depend on the order in
\* which the range loop visits the map: whenever a request is at its scan, at
\* most one stored code matches its long URL, so every visiting order answers
\* the same code.
C28_ScanOrderIndependent ==
  \A p \in Procs :
    pc[p] = "sScan"
    => \A c1, c2 \in DOMAIN urlStore :
         ( urlStore[c1] = req[p].body.long_url /\ urlStore[c2] = req[p].body.long_url )
         => ShortenResp(c1) = ShortenResp(c2)

\* A scan over a map of two records, one of which matches.
C28_Witness ==
  \E p \in Procs :
    /\ pc[p] = "sScan"
    /\ Cardinality(DOMAIN urlStore) = 2
    /\ \E c \in DOMAIN urlStore : urlStore[c] = req[p].body.long_url

\* C27: every path through Shorten and Resolve that acquires mu releases it
\* exactly once: mu is held exactly while its holder is between Lock and Unlock,
\* and only the holder's Unlock step frees it. So no reachable state has every
\* request in flight blocked, and under fair scheduling every request that has
\* arrived is eventually answered.
C27_LockReleaseAndProgress ==
  /\ [](\A p \in Procs : mu = p <=> InCS(p))
  /\ [][\A p \in Procs :
          (mu = p /\ mu' # p)
          => (pc[p] \in { "sUnlock", "rUnlock" } /\ pc'[p] # pc[p] /\ mu' = Unlocked)]_vars
  /\ []((\E p \in Procs : ~Free(p)) => \E p \in Procs : ENABLED HandlerStep(p))
  /\ \A p \in Procs : [](~Free(p) => <>(pc[p] = "done"))

\* Two Shorten requests that were in flight together, so that one had to wait
\* for the lock, have both been answered and the lock is free.
C27_Witness ==
  /\ Len(shortened) = 2
  /\ shortened[2].arrived = 0
  /\ \A p \in Procs : pc[p] = "done"
  /\ mu = Unlocked

\* Goroutine p's Shorten request has inserted its record, under shortCode[p].
Committed(p) ==
  /\ req[p].handler = "shorten"
  /\ pc[p] \in { "sUnlock", "done" }
  /\ shortCode[p] # NoCode

\* C23: the commit survives the caller's abort: once a Shorten request has
\* inserted its record, the client going away and the steps the handler takes
\* for a client that has gone away (its response write fails) leave the store
\* as it is, and as long as no later Shorten has answered, a lookup of the code
\* returns the long URL of the aborted request.
C23_CommitSurvivesAbort ==
  /\ [][ \A p \in Procs :
           ( /\ Committed(p)
             /\ req'[p].aborted
             /\ (req'[p] # req[p] \/ pc'[p] # pc[p]) )
           => urlStore' = urlStore ]_vars
  /\ [](\A p \in Procs :
          ( /\ Committed(p)
            /\ req[p].aborted
            /\ Last(shortened).short_url = ShortURL(shortCode[p])
            /\ Last(shortened).long_url = req[p].body.long_url )
          => Lookup(urlStore, shortCode[p])
               = [longURL |-> req[p].body.long_url, ok |-> TRUE])

\* The client of a Shorten request gave up after the insert, and a redirect for
\* the code has since found the long URL.
C23_Witness ==
  \E p, q \in Procs :
    /\ Committed(p)
    /\ req[p].aborted
    /\ pc[q] = "rUnlock"
    /\ shortCode[q] = shortCode[p]
    /\ found[q] = [longURL |-> req[p].body.long_url, ok |-> TRUE]

\* C29: Bookstore not-found mapping: when the repository reports that no row
\* has the id, the service's GetBookByID returns the error "book not found"
\* (UpdateBook and DeleteBook: "book not found for update", "book not found
\* for deletion"), and the handler answers 404.
C29_NotFoundMapping ==
  \A p \in Procs :
    ( /\ call[p].pc = "done"
      /\ call[p].op \in { "get", "update", "delete" }
      /\ call[p].repoErr = ErrRecordNotFound )
    => /\ call[p].resp.status = 404
       /\ call[p].op = "get" => call[p].err.msg = "book not found"
       /\ call[p].op = "update" => call[p].err.msg = "book not found for update"
       /\ call[p].op = "delete" => call[p].err.msg = "book not found for deletion"

\* C30: Bookstore ISBN uniqueness: whatever the interleaving of CreateBook calls
\* with one ISBN, the table holds at most one book with it, and every call with
\* a well-formed body that did not create its book was answered 409, "book with
\* this ISBN already exists".
C30_ISBNUniqueness ==
  /\ \A i \in ISBNs : Cardinality({ id \in DOMAIN books : books[id].ISBN = i }) <= 1
  /\ \A p \in Procs :
       ( /\ call[p].pc = "done"
         /\ call[p].op = "create"
         /\ call[p].body.valid
         /\ call[p].body.book.ISBN \in ISBNs
         /\ call[p].resp.status # 201 )
       => call[p].resp = [status |-> 409, body |-> "book with this ISBN already exists"]

====
